---- MODULE Spec2Model ----
(***************************************************************************)
(* A model of minigo's main.py: the gather command (windowed, de-duplicating *)
(* aggregation of selfplay record files into training chunks, with its      *)
(* meta.txt ledger), the train_dir chunk window selection and the gtp       *)
(* read/dispatch/reply loop.                                                *)
(*                                                                         *)
(* Text (paths, file contents, input lines) is modelled as a sequence of    *)
(* one-character strings, so that join/split/sorted are computed the way    *)
(* Python computes them.                                                    *)
(***************************************************************************)
EXTENDS Integers, Sequences, FiniteSets, TLC

\* ------------------------------------------------------------------ bounds
\* gather invocations per behaviour
MaxRuns == 2
\* examples_per_record values tried by gather: 1..MaxGatherBatch
MaxGatherBatch == 2
\* gather processes that die per behaviour
MaxCrashes == 1
\* train_dir: WINDOW_SIZE ranges over 0..MaxWindow besides its source value
MaxWindow == 3
\* train_dir: EXAMPLES_PER_RECORD ranges over 1..MaxRecordSize besides its
\* source value
MaxRecordSize == 2
\* train_dir: chunk files per generation in chunk_dir have indices
\* 0..MaxChunkIndex
MaxChunkIndex == 1
\* gtp: lines the peer sends before it closes the channel
MaxLines == 2
\* gtp: sub-commands in one input line
MaxCmds == 3

\* ------------------------------------------------------- program constants
\* sorted(gfile.ListDirectory(input_directory))[-50:]
KeepGenerations == 50
\* How many positions we should aggregate per 'chunk'.
EXAMPLES_PER_RECORD == 10000
\* How many positions to draw from for our training window.
WINDOW_SIZE == 125000000

\* holdout_pct = 0.05, in hundredths
HOLDOUT_PCT == 5

\* Bounds of the selfplay model: seconds of clock, moves of a game
MaxClock == 1

MaxMoves == 2

\* ------------------------------------------------------------------ text
Whitespace == {" ", "\n"}

\* Python compares str by code point.
CodePoint(c) ==
  CASE c = "\n" -> 10
    [] c = " " -> 32
    [] c = "-" -> 45
    [] c = "/" -> 47
    [] c = "0" -> 48
    [] c = "1" -> 49
    [] c = "2" -> 50
    [] c = "3" -> 51
    [] c = "4" -> 52
    [] c = "5" -> 53
    [] c = "6" -> 54
    [] c = "7" -> 55
    [] c = "8" -> 56
    [] c = "9" -> 57
    [] c = "a" -> 97
    [] c = "b" -> 98
    [] c = "d" -> 100
    [] c = "m" -> 109
    [] c = "p" -> 112
    [] c = "q" -> 113

RECURSIVE StrLess(_, _)
StrLess(s, t) ==
  IF t = <<>> THEN FALSE
  ELSE IF s = <<>> THEN TRUE
  ELSE IF Head(s) = Head(t) THEN StrLess(Tail(s), Tail(t))
  ELSE CodePoint(Head(s)) < CodePoint(Head(t))

\* sorted(S) for a collection of distinct strings
RECURSIVE Sorted(_)
Sorted(S) ==
  IF S = {} THEN <<>>
  ELSE LET least == CHOOSE x \in S : \A y \in S \ {x} : StrLess(x, y)
       IN <<least>> \o Sorted(S \ {least})

\* sep.join(parts)
RECURSIVE Join(_, _)
Join(parts, sep) ==
  IF parts = <<>> THEN <<>>
  ELSE IF Len(parts) = 1 THEN parts[1]
  ELSE parts[1] \o <<sep>> \o Join(Tail(parts), sep)

\* s.split(sep): empty pieces are kept
RECURSIVE SplitOn(_, _)
SplitOn(s, sep) ==
  IF \A k \in 1..Len(s) : s[k] # sep THEN <<s>>
  ELSE LET k == CHOOSE k \in 1..Len(s) :
                  s[k] = sep /\ \A j \in 1..(k - 1) : s[j] # sep
       IN <<SubSeq(s, 1, k - 1)>> \o SplitOn(SubSeq(s, k + 1, Len(s)), sep)

\* s.split(): pieces between runs of whitespace, no empty piece
RECURSIVE SplitWhitespace(_)
SplitWhitespace(s) ==
  IF s = <<>> THEN <<>>
  ELSE IF Head(s) \in Whitespace THEN SplitWhitespace(Tail(s))
  ELSE LET stops == {k \in 1..Len(s) : s[k] \in Whitespace}
           n == IF stops = {} THEN Len(s) + 1
                ELSE CHOOSE k \in stops : \A j \in stops : k <= j
       IN <<SubSeq(s, 1, n - 1)>> \o SplitWhitespace(SubSeq(s, n, Len(s)))

\* str(i) for i >= 0
RECURSIVE DecStr(_)
DecStr(i) ==
  LET digit == <<"0", "1", "2", "3", "4", "5", "6", "7", "8", "9">>
  IN IF i < 10 THEN <<digit[i + 1]>>
     ELSE DecStr(i \div 10) \o <<digit[(i % 10) + 1]>>

\* os.path.join(a, b)
PathJoin(a, b) ==
  IF a # <<>> /\ a[Len(a)] = "/" THEN a \o b ELSE a \o <<"/">> \o b

\* s[-k:] for k >= 0: Python's -0 is 0, so s[-0:] is the whole of s
PySuffix(s, k) ==
  LET start == IF k = 0 THEN 0
               ELSE IF Len(s) - k < 0 THEN 0 ELSE Len(s) - k
  IN SubSeq(s, start + 1, Len(s))

Range(s) == {s[k] : k \in 1..Len(s)}

Prefixes(s) == {SubSeq(s, 1, n) : n \in 0..Len(s)}

\* ------------------------------------------------------------ input tree
\* Generation directories under input_directory, and the record files a
\* selfplay worker may have written into one.
Generations == {<<"0">>, <<"1">>}
FileNames == {<<"a">>, <<"b">>}
\* The record files that selfplay workers may write: <<generation, file name>>
RecordFiles == {<<<<"0">>, <<"a">>>>, <<<<"0">>, <<"b">>>>, <<<<"1">>, <<"a">>>>}
\* input_directory as given on the command line
InputDirs == {<<"d">>, <<"m", " ", "d">>}
\* Examples held by a record file (positions of one game)
NumExamples(f) == IF f = <<"a">> THEN 1 ELSE 2

Procs == {1, 2}
SeqProcs == {1}

VARIABLES
  \* gather
  input_directory,      \* gather's input_directory
  examples_per_record,  \* gather's examples_per_record
  drop_remainder,       \* batch policy of shuffle_tf_examples
  tree,                 \* record files present: <<generation, file name>>
  meta,                 \* output_directory/meta.txt: [exists, text]
  chunks,               \* output_directory: chunk file name -> examples
  pc,                   \* per gather process: position in gather
  model_gamedata,       \* per process: generation -> globbed record paths
  already_processed,    \* per process: the in-memory ledger set
  todo,                 \* per process: generations still to iterate
  batches,              \* per process: batches still to be yielded
  i,                    \* per process: enumerate() index of the next batch
  \* gather, history for stating the properties
  runs,                 \* gather runs started so far
  crashes,              \* gather runs that died so far
  fed,                  \* record path -> number of runs that gave it to
                        \* batching (a run gives a path at most once)
  wrote,                \* chunk name -> number of runs that wrote the file
                        \* (a run writes a name at most once)
  start_meta,           \* per process: meta.txt as it was when it started
  new_text,             \* per process: the text it set out to write to
                        \* meta.txt, once it has opened the file
  n_written,            \* per process: chunk files written in this run
  dirty,                \* a record file was added since the last listing
  prev_done,            \* the last gather run ran to completion
  repeat                \* per process: this run repeats a completed run on
                        \* an unchanged tree

params == <<input_directory, examples_per_record, drop_remainder>>
locals == <<model_gamedata, already_processed, todo, batches, i>>
gatherVars == <<params, tree, meta, chunks, pc, locals, runs, crashes, fed,
                wrote, start_meta, new_text, n_written, dirty, prev_done,
                repeat>>

VARIABLES
  \* train_dir / train
  window_size,          \* the value of WINDOW_SIZE
  record_size,          \* the value of EXAMPLES_PER_RECORD
  chunk_dir,            \* names of the chunk files in chunk_dir
  tf_records,           \* train_dir's tf_records
  train_pc,             \* position in train_dir / train
  trainer_calls         \* history: times dual_net.train was invoked

trainVars == <<window_size, record_size, chunk_dir, tf_records, train_pc,
               trainer_calls>>

VARIABLES
  \* gtp
  disconnect,           \* engine.disconnect
  gtp_pc,               \* position in gtp
  inpt,                 \* the line input() returned
  cmd_list,             \* the sub-commands of that line
  cmd_no,               \* position of the for loop in cmd_list
  engine_reply,         \* the reply of the last engine.send
  stdout_buf,           \* replies written to sys.stdout, not yet flushed
  stdout,               \* replies flushed to the peer
  \* gtp, history for stating the properties
  input_log,            \* per line read: the sub-commands the peer put in it
  sent,                 \* the commands given to engine.send, in order
  reads_failed          \* times input() raised

gtpVars == <<disconnect, gtp_pc, inpt, cmd_list, cmd_no, engine_reply,
             stdout_buf, stdout, input_log, sent, reads_failed>>

VARIABLES
  \* selfplay
  holdout_pct,          \* selfplay's holdout_pct, in hundredths
  output_dir,           \* selfplay's output_dir
  holdout_dir,          \* selfplay's holdout_dir
  output_sgf,           \* selfplay's output_sgf
  hostname,             \* socket.gethostname() of each session's host
  clock,                \* int(time.time())
  sp_pc,                \* position of each session in selfplay
  moves,                \* length of each session's game
  output_name,          \* each session's output_name
  game_data,            \* each session's game_data
  tf_examples,          \* each session's tf_examples
  fname,                \* each session's fname
  fs,                   \* the file system: path -> content
  file_log              \* history: every write, [path, by, data]

selfplayParams == <<holdout_pct, output_dir, holdout_dir, output_sgf, hostname>>

selfplayVars == <<selfplayParams, clock, sp_pc, moves, output_name, game_data,
                  tf_examples, fname, fs, file_log>>

vars == <<gatherVars, trainVars, gtpVars, selfplayVars>>

\* ---------------------------------------------------------------- gather
RecordPath(g, f) == PathJoin(PathJoin(input_directory, g), f)

\* gfile.Glob(os.path.join(input_directory, model, '*.tfrecord.zz'))
Glob(g) == {RecordPath(rec[1], rec[2]) : rec \in {r \in tree : r[1] = g}}

\* [model_dir.strip('/') for model_dir in sorted(ListDirectory(...))[-50:]]
Models == Range(PySuffix(Sorted(Generations), KeepGenerations))

\* set(f.read().split()), or set() when meta.txt is not found
ParseLedger(m) == IF m.exists THEN Range(SplitWhitespace(m.text)) ELSE {}

\* '\n'.join(sorted(already_processed))
FormatLedger(S) == Join(Sorted(S), "\n")

\* '{}-{}.tfrecord.zz'.format(model_name, str(i)); the extension is left out
ChunkName(g, n) == g \o <<"-">> \o DecStr(n)

ExamplesOf(path) ==
  LET f == CHOOSE f \in FileNames : \E g \in Generations : RecordPath(g, f) = path
  IN {<<path, k>> : k \in 1..NumExamples(f)}

Permutations_(S) ==
  {s \in [1..Cardinality(S) -> S] : \A a, b \in 1..Cardinality(S) : a # b => s[a] # s[b]}

\* Cut a sequence into batches of n, the last one possibly short
RECURSIVE Chop(_, _, _)
Chop(s, n, drop) ==
  IF s = <<>> THEN <<>>
  ELSE IF Len(s) < n THEN (IF drop THEN <<>> ELSE <<Range(s)>>)
  ELSE <<Range(SubSeq(s, 1, n))>> \o Chop(SubSeq(s, n + 1, Len(s)), n, drop)

\* preprocessing.shuffle_tf_examples(examples_per_record, record_files): the
\* possible sequences of batches
ShuffleTfExamples(n, files) ==
  {Chop(s, n, drop_remainder) :
     s \in Permutations_(UNION {ExamplesOf(path) : path \in files})}

GatherInit ==
  /\ input_directory \in InputDirs
  /\ examples_per_record \in 1..MaxGatherBatch
  /\ drop_remainder \in BOOLEAN
  /\ tree = {}
  /\ meta = [exists |-> FALSE, text |-> <<>>]
  /\ chunks = <<>>
  /\ pc = [p \in Procs |-> "idle"]
  /\ model_gamedata = [p \in Procs |-> <<>>]
  /\ already_processed = [p \in Procs |-> {}]
  /\ todo = [p \in Procs |-> <<>>]
  /\ batches = [p \in Procs |-> <<>>]
  /\ i = [p \in Procs |-> 0]
  /\ runs = 0
  /\ crashes = 0
  /\ fed = <<>>
  /\ wrote = <<>>
  /\ start_meta = [p \in Procs |-> [exists |-> FALSE, text |-> <<>>]]
  /\ new_text = [p \in Procs |-> [set |-> FALSE, text |-> <<>>]]
  /\ n_written = [p \in Procs |-> 0]
  /\ dirty = FALSE
  /\ prev_done = FALSE
  /\ repeat = [p \in Procs |-> FALSE]

Count(f, x) == IF x \in DOMAIN f THEN f[x] ELSE 0

Stopped(p) == pc[p] \in {"idle", "done", "crashed"}

\* No gather is between two of its steps.
Quiet == \A p \in Procs : Stopped(p)

\* A selfplay worker writes one more record file into a generation directory.
AddRecord(rec) ==
  /\ rec \notin tree
  /\ tree' = tree \cup {rec}
  /\ dirty' = TRUE
  /\ UNCHANGED <<selfplayVars, trainVars, gtpVars, params, meta, chunks, pc, locals, runs, crashes, fed, wrote,
                 start_meta, new_text, n_written, prev_done, repeat>>

\* Mutant of MayStart: gather holds a lock while it runs.
MayStart_Exclusive(p) == \A q \in Procs : Stopped(q)

\* gather can be invoked whenever this invocation is not running: it takes
\* no lock and looks at no other invocation.
MayStart(p) == Stopped(p)

\* gather is invoked: list the generations and glob their record files.
StartGather(p) ==
  /\ MayStart(p)
  /\ runs < MaxRuns
  /\ runs' = runs + 1
  /\ model_gamedata' = [model_gamedata EXCEPT ![p] = [g \in Models |-> Glob(g)]]
  /\ start_meta' = [start_meta EXCEPT ![p] = meta]
  /\ new_text' = [new_text EXCEPT ![p] = [set |-> FALSE, text |-> <<>>]]
  /\ n_written' = [n_written EXCEPT ![p] = 0]
  /\ repeat' = [repeat EXCEPT ![p] = prev_done /\ ~dirty]
  /\ dirty' = FALSE
  /\ pc' = [pc EXCEPT ![p] = "read"]
  /\ UNCHANGED <<selfplayVars, trainVars, gtpVars, params, tree, meta, chunks, already_processed, todo, batches,
                 i, crashes, fed, wrote, prev_done>>

\* Load the ledger.
ReadLedger(p) ==
  /\ pc[p] = "read"
  /\ already_processed' = [already_processed EXCEPT ![p] = ParseLedger(meta)]
  /\ todo' = [todo EXCEPT ![p] = Sorted(DOMAIN model_gamedata[p])]
  /\ pc' = [pc EXCEPT ![p] = "loop"]
  /\ UNCHANGED <<selfplayVars, trainVars, gtpVars, params, tree, meta, chunks, model_gamedata, batches, i, runs,
                 crashes, fed, wrote, start_meta, new_text, n_written, dirty,
                 prev_done, repeat>>

\* if set(record_files) <= already_processed: continue
AllProcessed(record_files, ledger) == record_files \subseteq ledger

SkipGeneration(p) ==
  /\ pc[p] = "loop"
  /\ todo[p] # <<>>
  /\ AllProcessed(model_gamedata[p][Head(todo[p])], already_processed[p])
  /\ todo' = [todo EXCEPT ![p] = Tail(todo[p])]
  /\ UNCHANGED <<selfplayVars, trainVars, gtpVars, params, tree, meta, chunks, pc, model_gamedata,
                 already_processed, batches, i, runs, crashes, fed, wrote,
                 start_meta, new_text, n_written, dirty, prev_done, repeat>>

\* The record files handed to shuffle_tf_examples for a generation
FilesToShuffle(record_files, ledger) == record_files

BeginGeneration(p) ==
  /\ pc[p] = "loop"
  /\ todo[p] # <<>>
  /\ ~AllProcessed(model_gamedata[p][Head(todo[p])], already_processed[p])
  /\ LET files == FilesToShuffle(model_gamedata[p][Head(todo[p])],
                                 already_processed[p])
     IN /\ \E bs \in ShuffleTfExamples(examples_per_record, files) :
             batches' = [batches EXCEPT ![p] = bs]
        /\ fed' = [path \in files |-> Count(fed, path) + 1] @@ fed
  /\ i' = [i EXCEPT ![p] = 0]
  /\ pc' = [pc EXCEPT ![p] = "batch"]
  /\ UNCHANGED <<selfplayVars, trainVars, gtpVars, params, tree, meta, chunks, model_gamedata,
                 already_processed, todo, runs, crashes, wrote, start_meta,
                 new_text, n_written, dirty, prev_done, repeat>>

\* preprocessing.write_tf_examples(output_record, example_batch)
WriteChunk(p) ==
  /\ pc[p] = "batch"
  /\ batches[p] # <<>>
  /\ LET name == ChunkName(Head(todo[p]), i[p])
     IN /\ chunks' = (name :> Head(batches[p])) @@ chunks
        /\ wrote' = (name :> Count(wrote, name) + 1) @@ wrote
  /\ batches' = [batches EXCEPT ![p] = Tail(batches[p])]
  /\ i' = [i EXCEPT ![p] = i[p] + 1]
  /\ n_written' = [n_written EXCEPT ![p] = n_written[p] + 1]
  /\ UNCHANGED <<selfplayVars, trainVars, gtpVars, params, tree, meta, pc, model_gamedata, already_processed,
                 todo, runs, crashes, fed, start_meta, new_text, dirty,
                 prev_done, repeat>>

\* Mutant of UpdateLedger: the set is replaced instead of updated.
UpdateLedger_Replace(ledger, record_files) == record_files

\* already_processed.update(record_files)
UpdateLedger(ledger, record_files) == ledger \cup record_files

EndGeneration(p) ==
  /\ pc[p] = "batch"
  /\ batches[p] = <<>>
  /\ already_processed' =
       [already_processed EXCEPT
          ![p] = UpdateLedger(already_processed[p],
                              model_gamedata[p][Head(todo[p])])]
  /\ todo' = [todo EXCEPT ![p] = Tail(todo[p])]
  /\ pc' = [pc EXCEPT ![p] = "loop"]
  /\ UNCHANGED <<selfplayVars, trainVars, gtpVars, params, tree, meta, chunks, model_gamedata, batches, i, runs,
                 crashes, fed, wrote, start_meta, new_text, n_written, dirty,
                 prev_done, repeat>>

\* The process ends: its memory is gone.
Exit(p) ==
  /\ model_gamedata' = [model_gamedata EXCEPT ![p] = <<>>]
  /\ already_processed' = [already_processed EXCEPT ![p] = {}]
  /\ todo' = [todo EXCEPT ![p] = <<>>]
  /\ batches' = [batches EXCEPT ![p] = <<>>]
  /\ i' = [i EXCEPT ![p] = 0]

\* gfile.GFile(meta_file, 'w'): the file is created or truncated
OpenLedger(p) ==
  /\ pc[p] = "loop"
  /\ todo[p] = <<>>
  /\ meta' = [exists |-> TRUE, text |-> <<>>]
  /\ new_text' = [new_text EXCEPT
                    ![p] = [set |-> TRUE,
                            text |-> FormatLedger(already_processed[p])]]
  /\ pc' = [pc EXCEPT ![p] = "write"]
  /\ UNCHANGED <<selfplayVars, trainVars, gtpVars, params, tree, chunks, locals, runs, crashes, fed, wrote,
                 start_meta, n_written, dirty, prev_done, repeat>>

\* f.write('\n'.join(sorted(already_processed))) and close
WriteLedger(p) ==
  /\ pc[p] = "write"
  /\ meta' = [exists |-> TRUE, text |-> FormatLedger(already_processed[p])]
  /\ pc' = [pc EXCEPT ![p] = "done"]
  /\ prev_done' = TRUE
  /\ Exit(p)
  /\ UNCHANGED <<selfplayVars, trainVars, gtpVars, params, tree, chunks, runs, crashes, fed, wrote, start_meta,
                 new_text, n_written, dirty, repeat>>

\* The gather process dies between two of its steps; a death during the
\* write of meta.txt leaves whatever part of the text had reached the file.
Crash(p) ==
  /\ ~Stopped(p)
  /\ crashes < MaxCrashes
  /\ IF pc[p] = "write"
     THEN \E part \in Prefixes(FormatLedger(already_processed[p])) :
            meta' = [exists |-> TRUE, text |-> part]
     ELSE meta' = meta
  /\ pc' = [pc EXCEPT ![p] = "crashed"]
  /\ crashes' = crashes + 1
  /\ prev_done' = FALSE
  /\ Exit(p)
  /\ UNCHANGED <<selfplayVars, trainVars, gtpVars, params, tree, chunks, runs, fed, wrote, start_meta, new_text,
                 n_written, dirty, repeat>>

\* The steps of a gather that is not interrupted
GatherRun(p) ==
  \/ ReadLedger(p)
  \/ SkipGeneration(p)
  \/ BeginGeneration(p)
  \/ WriteChunk(p)
  \/ EndGeneration(p)
  \/ OpenLedger(p)
  \/ WriteLedger(p)

GatherStep(p) ==
  \/ GatherRun(p)
  \/ Crash(p)

\* ------------------------------------------------------ train_dir, train
\* The chunk files a chunk directory may hold
ChunkFiles == {ChunkName(g, n) : g \in Generations, n \in 0..MaxChunkIndex}

\* WINDOW_SIZE // EXAMPLES_PER_RECORD
MaxChunks == window_size \div record_size

\* sorted(gfile.Glob(os.path.join(chunk_dir, '*.tfrecord.zz')))
\*   [-1 * (WINDOW_SIZE // EXAMPLES_PER_RECORD):]
SelectWindow(files) == PySuffix(Sorted(files), MaxChunks)

TrainInit ==
  /\ window_size \in (0..MaxWindow) \cup {WINDOW_SIZE}
  /\ record_size \in (1..MaxRecordSize) \cup {EXAMPLES_PER_RECORD}
  /\ chunk_dir \in SUBSET ChunkFiles
  /\ tf_records = <<>>
  /\ train_pc = "start"
  /\ trainer_calls = 0

\* train_dir up to its call of train
TrainDir ==
  /\ train_pc = "start"
  /\ tf_records' = SelectWindow(chunk_dir)
  /\ train_pc' = "selected"
  /\ UNCHANGED <<selfplayVars, gatherVars, gtpVars, window_size, record_size, chunk_dir,
                 trainer_calls>>

\* Mutant of NoFirstRecord: train does not look at tf_records[0].
NoFirstRecord_Unchecked(records) == FALSE

\* print("Training on:", tf_records[0], ...): tf_records[0] of an empty
\* list raises IndexError
NoFirstRecord(records) == records = <<>>

\* train with an empty list: the IndexError leaves train before the trainer
\* is invoked
TrainFails ==
  /\ train_pc = "selected"
  /\ NoFirstRecord(tf_records)
  /\ train_pc' = "failed"
  /\ UNCHANGED <<selfplayVars, gatherVars, gtpVars, window_size, record_size, chunk_dir,
                 tf_records, trainer_calls>>

\* train: dual_net.train, export_model, freeze_graph
TrainRuns ==
  /\ train_pc = "selected"
  /\ ~NoFirstRecord(tf_records)
  /\ trainer_calls' = trainer_calls + 1
  /\ train_pc' = "trained"
  /\ UNCHANGED <<selfplayVars, gatherVars, gtpVars, window_size, record_size, chunk_dir,
                 tf_records>>

TrainNext == TrainDir \/ TrainFails \/ TrainRuns

\* -------------------------------------------------------------------- gtp
\* Command texts the peer sends: "p" stands for a command the engine knows,
\* "q" for quit.
Commands == {<<"p">>, <<"q">>}

\* The lines the peer may send: 1..MaxCmds commands joined by "\n"
CommandLists == UNION {[1..n -> Commands] : n \in 1..MaxCmds}

\* engine.send(cmd): the reply text
EngineReply(cmd) ==
  IF cmd \in Commands THEN <<"=", "\n", "\n">> ELSE <<"?", "\n", "\n">>

\* engine.send(cmd): whether the engine sets its disconnect flag
EngineQuits(cmd) == cmd = <<"q">>

\* Mutant of KeepRunning: the loop never looks at the flag.
KeepRunning_Always == TRUE

\* while not engine.disconnect
KeepRunning == ~disconnect

\* Mutant of CmdList: the line is taken as one command.
CmdList_Whole(line) == <<line>>

\* cmd_list = inpt.split("\n"); the except branch needs an inpt that is no
\* str, which input() never returns
CmdList(line) == SplitOn(line, "\n")

GtpInit ==
  /\ disconnect = FALSE
  /\ gtp_pc = "while"
  /\ inpt = <<>>
  /\ cmd_list = <<>>
  /\ cmd_no = 0
  /\ engine_reply = <<>>
  /\ stdout_buf = <<>>
  /\ stdout = <<>>
  /\ input_log = <<>>
  /\ sent = <<>>
  /\ reads_failed = 0

\* The loop condition is tested and holds.
EnterLoop ==
  /\ gtp_pc = "while"
  /\ KeepRunning
  /\ gtp_pc' = "input"
  /\ UNCHANGED <<selfplayVars, gatherVars, trainVars, disconnect, inpt, cmd_list, cmd_no,
                 engine_reply, stdout_buf, stdout, input_log, sent,
                 reads_failed>>

\* The loop condition is tested and fails: gtp returns.
LeaveLoop ==
  /\ gtp_pc = "while"
  /\ ~KeepRunning
  /\ gtp_pc' = "done"
  /\ UNCHANGED <<selfplayVars, gatherVars, trainVars, disconnect, inpt, cmd_list, cmd_no,
                 engine_reply, stdout_buf, stdout, input_log, sent,
                 reads_failed>>

\* inpt = input() returns a line; it is split into cmd_list.
ReadLine ==
  /\ gtp_pc = "input"
  /\ Len(input_log) < MaxLines
  /\ \E cmds \in CommandLists :
       /\ inpt' = Join(cmds, "\n")
       /\ cmd_list' = CmdList(Join(cmds, "\n"))
       /\ input_log' = Append(input_log, cmds)
  /\ cmd_no' = 1
  /\ gtp_pc' = "for"
  /\ UNCHANGED <<selfplayVars, gatherVars, trainVars, disconnect, engine_reply, stdout_buf,
                 stdout, sent, reads_failed>>

\* inpt = input() raises (EOFError on a closed channel, UnicodeDecodeError on
\* undecodable input): the call is outside the try, the exception leaves gtp.
ReadFails ==
  /\ gtp_pc = "input"
  /\ reads_failed' = reads_failed + 1
  /\ gtp_pc' = "error"
  /\ UNCHANGED <<selfplayVars, gatherVars, trainVars, disconnect, inpt, cmd_list, cmd_no,
                 engine_reply, stdout_buf, stdout, input_log, sent>>

\* engine_reply = engine.send(cmd)
Send ==
  /\ gtp_pc = "for"
  /\ cmd_no <= Len(cmd_list)
  /\ engine_reply' = EngineReply(cmd_list[cmd_no])
  /\ disconnect' = (disconnect \/ EngineQuits(cmd_list[cmd_no]))
  /\ sent' = Append(sent, cmd_list[cmd_no])
  /\ gtp_pc' = "write"
  /\ UNCHANGED <<selfplayVars, gatherVars, trainVars, inpt, cmd_list, cmd_no, stdout_buf,
                 stdout, input_log, reads_failed>>

\* sys.stdout.write(engine_reply)
Write ==
  /\ gtp_pc = "write"
  /\ stdout_buf' = Append(stdout_buf, engine_reply)
  /\ gtp_pc' = "flush"
  /\ UNCHANGED <<selfplayVars, gatherVars, trainVars, disconnect, inpt, cmd_list, cmd_no,
                 engine_reply, stdout, input_log, sent, reads_failed>>

\* sys.stdout.flush(), and on to the next cmd
Flush ==
  /\ gtp_pc = "flush"
  /\ stdout' = stdout \o stdout_buf
  /\ stdout_buf' = <<>>
  /\ cmd_no' = cmd_no + 1
  /\ gtp_pc' = "for"
  /\ UNCHANGED <<selfplayVars, gatherVars, trainVars, disconnect, inpt, cmd_list,
                 engine_reply, input_log, sent, reads_failed>>

\* The for loop is exhausted: back to the loop condition.
EndFor ==
  /\ gtp_pc = "for"
  /\ cmd_no > Len(cmd_list)
  /\ gtp_pc' = "while"
  /\ UNCHANGED <<selfplayVars, gatherVars, trainVars, disconnect, inpt, cmd_list, cmd_no,
                 engine_reply, stdout_buf, stdout, input_log, sent,
                 reads_failed>>

\* The steps gtp takes by itself, without waiting for the peer
GtpLoopStep == EnterLoop \/ LeaveLoop \/ Send \/ Write \/ Flush \/ EndFor

GtpNext == GtpLoopStep \/ ReadLine \/ ReadFails

\* -------------------------------------------------------------- selfplay
\* Concurrent selfplay sessions: independent processes that share only the
\* file system and, when they run on one host, its clock and its name.
Sessions == {1, 2}

Hosts == {<<"a">>, <<"b">>}

\* random.random() and holdout_pct, in hundredths
Draws == {0, 4, 5, 99}

HoldoutPcts == {0, HOLDOUT_PCT, 100}

SgfExt == <<".", "s", "g", "f">>

TfExt == <<".", "t", "f", "r", "e", "c", "o", "r", "d", ".", "z", "z">>

\* '{}-{}'.format(int(time.time()), socket.gethostname())
OutputName(now, host) == DecStr(now) \o <<"-">> \o host

\* os.path.join(output_sgf, 'clean'), os.path.join(output_sgf, 'full')
clean_sgf == PathJoin(output_sgf, <<"c", "l", "e", "a", "n">>)

full_sgf == PathJoin(output_sgf, <<"f", "u", "l", "l">>)

\* os.path.join(dir, '{}.sgf'.format(name))
SgfPath(dir, name) == PathJoin(dir, name \o SgfExt)

\* Mutant of ExamplePath: the example file is named after the time alone.
ExamplePath_NoHost(dir, name) == PathJoin(dir, DecStr(clock) \o TfExt)

\* os.path.join(dir, "{}.tfrecord.zz".format(output_name))
ExamplePath(dir, name) == PathJoin(dir, name \o TfExt)

\* player.extract_data(): one position per move of the session's game
ExtractData(s) == {<<s, k>> : k \in 1..moves[s]}

\* preprocessing.make_dataset_from_selfplay: one example per position
MakeDataset(data) == data

\* gfile.GFile(path, 'w').write / write_tf_examples: the file is replaced
WriteFile(s, path, data) ==
  /\ fs' = [q \in DOMAIN fs \cup {path} |->
                 IF q = path THEN data ELSE fs[q]]
  /\ file_log' = file_log \cup {[path |-> path, by |-> s, data |-> data]}

SelfplayInit ==
  /\ clock = 0
  /\ hostname \in [Sessions -> Hosts]
  /\ holdout_pct \in HoldoutPcts
  /\ output_dir = <<"s">>
  /\ holdout_dir = <<"h">>
  /\ output_sgf = <<"g", "/">>
  /\ sp_pc = [s \in Sessions |-> "play"]
  /\ moves = [s \in Sessions |-> 0]
  /\ output_name = [s \in Sessions |-> <<>>]
  /\ game_data = [s \in Sessions |-> {}]
  /\ tf_examples = [s \in Sessions |-> {}]
  /\ fname = [s \in Sessions |-> <<>>]
  /\ fs = <<>>
  /\ file_log = {}

\* One second passes.
Tick ==
  /\ clock < MaxClock
  /\ clock' = clock + 1
  /\ UNCHANGED <<gatherVars, trainVars, gtpVars, selfplayParams, sp_pc,
                 moves, output_name, game_data, tf_examples, fname, fs,
                 file_log>>

\* player = selfplay_mcts.play(network, verbose)
Play(s) ==
  /\ sp_pc[s] = "play"
  /\ \E n \in 1..MaxMoves : moves' = [moves EXCEPT ![s] = n]
  /\ sp_pc' = [sp_pc EXCEPT ![s] = "name"]
  /\ UNCHANGED <<gatherVars, trainVars, gtpVars, selfplayParams, clock,
                 output_name, game_data, tf_examples, fname, fs, file_log>>

\* output_name = ...; game_data = player.extract_data()
NameGame(s) ==
  /\ sp_pc[s] = "name"
  /\ output_name' = [output_name EXCEPT ![s] = OutputName(clock, hostname[s])]
  /\ game_data' = [game_data EXCEPT ![s] = ExtractData(s)]
  /\ sp_pc' = [sp_pc EXCEPT ![s] = "clean"]
  /\ UNCHANGED <<gatherVars, trainVars, gtpVars, selfplayParams, clock, moves,
                 tf_examples, fname, fs, file_log>>

\* the clean game log
WriteClean(s) ==
  /\ sp_pc[s] = "clean"
  /\ WriteFile(s, SgfPath(clean_sgf, output_name[s]), <<s, "clean">>)
  /\ sp_pc' = [sp_pc EXCEPT ![s] = "full"]
  /\ UNCHANGED <<gatherVars, trainVars, gtpVars, selfplayParams, clock, moves,
                 output_name, game_data, tf_examples, fname>>

\* the full game log; tf_examples = make_dataset_from_selfplay(game_data)
WriteFull(s) ==
  /\ sp_pc[s] = "full"
  /\ WriteFile(s, SgfPath(full_sgf, output_name[s]), <<s, "full">>)
  /\ tf_examples' = [tf_examples EXCEPT ![s] = MakeDataset(game_data[s])]
  /\ sp_pc' = [sp_pc EXCEPT ![s] = "route"]
  /\ UNCHANGED <<gatherVars, trainVars, gtpVars, selfplayParams, clock, moves,
                 output_name, game_data, fname>>

\* if random.random() < holdout_pct: fname = holdout... else: fname = output...
Route(s) ==
  /\ sp_pc[s] = "route"
  /\ \E draw \in Draws :
       fname' = [fname EXCEPT ![s] =
                   IF draw < holdout_pct
                   THEN ExamplePath(holdout_dir, output_name[s])
                   ELSE ExamplePath(output_dir, output_name[s])]
  /\ sp_pc' = [sp_pc EXCEPT ![s] = "write"]
  /\ UNCHANGED <<gatherVars, trainVars, gtpVars, selfplayParams, clock, moves,
                 output_name, game_data, tf_examples, fs, file_log>>

\* preprocessing.write_tf_examples(fname, tf_examples)
WriteExamples(s) ==
  /\ sp_pc[s] = "write"
  /\ WriteFile(s, fname[s], tf_examples[s])
  /\ sp_pc' = [sp_pc EXCEPT ![s] = "done"]
  /\ UNCHANGED <<gatherVars, trainVars, gtpVars, selfplayParams, clock, moves,
                 output_name, game_data, tf_examples, fname>>

SelfplayStep(s) ==
  \/ Play(s)
  \/ NameGame(s)
  \/ WriteClean(s)
  \/ WriteFull(s)
  \/ Route(s)
  \/ WriteExamples(s)

SelfplayNext ==
  \/ Tick
  \/ \E s \in Sessions : SelfplayStep(s)

\* --------------------------------------------------------- specifications
\* Each command is a process of its own; a specification runs one of them
\* and holds the state of the others still.
GatherOff ==
  /\ GatherInit
  /\ input_directory = <<"d">>
  /\ examples_per_record = 1
  /\ drop_remainder = FALSE

TrainOff ==
  /\ TrainInit
  /\ window_size = WINDOW_SIZE
  /\ record_size = EXAMPLES_PER_RECORD
  /\ chunk_dir = {}

GtpOff == GtpInit

SelfplayOff ==
  /\ SelfplayInit
  /\ hostname = [s \in Sessions |-> <<"a">>]
  /\ holdout_pct = HOLDOUT_PCT

\* One gather at a time (the operational rule the aggregator relies on).
\* gather reads the tree only when it lists it (StartGather), so with one
\* gather a file added while it runs has the effect of one added right after
\* it: files are added between runs.
Next ==
  \/ \E rec \in RecordFiles : Quiet /\ AddRecord(rec)
  \/ \E p \in SeqProcs : StartGather(p)
  \/ \E p \in SeqProcs : GatherStep(p)

Init == GatherInit /\ TrainOff /\ GtpOff /\ SelfplayOff

Spec == Init /\ [][Next]_vars

TrainSpecInit == TrainInit /\ GatherOff /\ GtpOff /\ SelfplayOff

TrainSpec == TrainSpecInit /\ [][TrainNext]_vars

GtpSpecInit == GtpInit /\ GatherOff /\ TrainOff /\ SelfplayOff

GtpSpec == GtpSpecInit /\ [][GtpNext]_vars

\* gtp runs its own steps as long as it is not waiting in input()
GtpLiveSpec == GtpSpec /\ WF_vars(GtpLoopStep)

SelfplaySpecInit == SelfplayInit /\ GatherOff /\ TrainOff /\ GtpOff

SelfplaySpec == SelfplaySpecInit /\ [][SelfplayNext]_vars

\* Two gather invocations, each run once, interleaved step by step with one
\* another and with the selfplay workers that add record files.
ConcNext ==
  \/ \E rec \in RecordFiles : AddRecord(rec)
  \/ \E p \in Procs : pc[p] = "idle" /\ StartGather(p)
  \/ \E p \in Procs : GatherRun(p)

ConcInit == GatherInit /\ TrainOff /\ GtpOff /\ SelfplayOff

ConcSpec == ConcInit /\ [][ConcNext]_vars

\* ------------------------------------------------------ gather: properties
HasWhitespace(s) == \E k \in 1..Len(s) : s[k] \in Whitespace

\* The persisted ledger set: what a gather starting now would load
Ledger == ParseLedger(meta)

\* The record files whose examples some chunk file holds
InChunks == {ex[1] : ex \in UNION {chunks[name] : name \in DOMAIN chunks}}

TreePaths == {RecordPath(rec[1], rec[2]) : rec \in tree}

\* C1: a gather that runs to completion right after a completed gather, with
\* no record file added in between, writes no chunk file and leaves the
\* persisted ledger set as the first run left it.
C1_DedupIdempotence ==
  \A p \in Procs :
    (pc[p] = "done" /\ repeat[p]) =>
      (n_written[p] = 0 /\ Ledger = ParseLedger(start_meta[p]))

\* C2: no record file is given to chunk batching by more than one gather run
\* (stated for runs that do not die and record paths without whitespace).
C2_ExactlyOnce ==
  (crashes = 0 /\ ~HasWhitespace(input_directory)) =>
    \A path \in DOMAIN fed : fed[path] <= 1

\* C3: no chunk file name is written by more than one gather run (stated for
\* runs that do not die and record paths without whitespace).
C3_ChunkImmutable ==
  (crashes = 0 /\ ~HasWhitespace(input_directory)) =>
    \A name \in DOMAIN wrote : wrote[name] <= 1

\* C4: when a gather run completes, the persisted ledger set is a superset of
\* the persisted ledger set the run started from.
C4_LedgerMonotonic ==
  \A p \in Procs :
    pc[p] = "done" => ParseLedger(start_meta[p]) \subseteq Ledger

\* C4 witness: a completed run that started from a non-empty ledger and
\* added to it.
C4_Witness ==
  /\ pc[1] = "done"
  /\ ParseLedger(start_meta[1]) # {}
  /\ ParseLedger(start_meta[1]) # Ledger

\* C5: whenever no gather is between two of its steps (it has completed or
\* died), a record file is in the persisted ledger iff its examples are in
\* some chunk file.
C5_LedgerIffChunk ==
  (\A p \in Procs : Stopped(p)) =>
    \A path \in TreePaths : (path \in Ledger) <=> (path \in InChunks)

\* C6: after a gather process died, the persisted ledger is either the one
\* that existed when the run started or the complete new one (compared as the
\* sets a gather would load, so that a missing and an empty meta.txt count as
\* the same ledger).
C6_AtomicLedgerWrite ==
  \A p \in Procs :
    pc[p] = "crashed" =>
      \/ Ledger = ParseLedger(start_meta[p])
      \/ /\ new_text[p].set
         /\ Ledger = ParseLedger([exists |-> TRUE, text |-> new_text[p].text])

\* --------------------------------------------------- train_dir: properties
Selected == train_pc \in {"selected", "trained", "failed"}

\* C7: the list train_dir passes to train has at most
\* WINDOW_SIZE // EXAMPLES_PER_RECORD entries.
C7_WindowBound == Selected => Len(tf_records) <= MaxChunks

\* The record files whose feed count rises in a step
NewlyFed == {path \in DOMAIN fed' : Count(fed', path) > Count(fed, path)}

\* C14: the record files a gather run feeds into chunk batching are not in
\* the ledger as it was at the start of the run.
C14_OnlyUnledgered ==
  [][\A p \in Procs :
       (pc[p] = "loop" /\ pc'[p] = "batch") =>
         NewlyFed \cap ParseLedger(start_meta[p]) = {}]_vars

\* The record files of every generation a run has listed
Considered(p) ==
  UNION {model_gamedata[p][g] : g \in DOMAIN model_gamedata[p]}

\* C15: when a gather run completes, the persisted ledger is the ledger
\* loaded at the start of the run united with the record files of every
\* generation the run considered.
C15_LedgerPostcondition ==
  [][\A p \in Procs :
       (pc[p] = "write" /\ pc'[p] = "done") =>
         ParseLedger(meta') = ParseLedger(start_meta[p]) \cup Considered(p)]_vars

\* The ledger an invocation has persisted: what it wrote to meta.txt
Persisted(p) == ParseLedger([exists |-> TRUE, text |-> new_text[p].text])

\* C18: nothing in gather prevents two invocations from interleaving: an
\* invocation that has not run yet can start whatever step the other one is
\* at; and the ledger left behind by two completed invocations is the ledger
\* of one of them alone (the last writer's), never a merge.
C18_ConcurrentUnsafe ==
  /\ \A p \in Procs :
       (pc[p] = "idle" /\ runs < MaxRuns) => ENABLED StartGather(p)
  /\ (\A p \in Procs : pc[p] = "done") =>
       \E p \in Procs : Ledger = Persisted(p)

\* C18 witness (lost update): both invocations have completed and the
\* persisted ledger lacks a record file that one of them had persisted.
C18_Witness ==
  /\ \A p \in Procs : pc[p] = "done"
  /\ \E p \in Procs : ~(Persisted(p) \subseteq Ledger)

\* C11: with no chunk file in chunk_dir the network trainer is never invoked,
\* train_dir cannot end in success, and once tf_records is selected the only
\* step left is the failure.
C11_EmptyWindowFails ==
  chunk_dir = {} =>
    /\ trainer_calls = 0
    /\ train_pc \in {"start", "selected", "failed"}
    /\ train_pc = "selected" => (ENABLED TrainFails /\ ~ENABLED TrainRuns)

\* C11 witness: train_dir has failed on an empty chunk directory.
C11_Witness == chunk_dir = {} /\ train_pc = "failed" /\ tf_records = <<>>

\* The last min(n, WINDOW_SIZE // EXAMPLES_PER_RECORD) entries of the
\* name-sorted list of the n files of chunk_dir
NewestChunks ==
  LET all == Sorted(chunk_dir)
      n == Len(all)
      m == IF n < MaxChunks THEN n ELSE MaxChunks
  IN SubSeq(all, n - m + 1, n)

\* C16: train_dir selects exactly the last min(n, WINDOW_SIZE //
\* EXAMPLES_PER_RECORD) files of the name-sorted list, in sorted order.
C16_WindowSelection == Selected => tf_records = NewestChunks

\* ---------------------------------------------------- selfplay: properties
\* Index of the last "/" of a path, 0 when it has none
LastSlash(path) ==
  LET at == {k \in 1..Len(path) : path[k] = "/"}
  IN IF at = {} THEN 0 ELSE CHOOSE k \in at : \A j \in at : j <= k

\* os.path.dirname(path)
DirName(path) == SubSeq(path, 1, LastSlash(path) - 1)

\* The file name of a path up to its first ".": its base name
BaseName(path) ==
  LET file == SubSeq(path, LastSlash(path) + 1, Len(path))
      dots == {k \in 1..Len(file) : file[k] = "."}
      stop == IF dots = {} THEN Len(file) + 1
              ELSE CHOOSE k \in dots : \A j \in dots : k <= j
  IN SubSeq(file, 1, stop - 1)

\* The writes of session s into the directories dirs
WritesOf(s, dirs) == {x \in file_log : x.by = s /\ DirName(x.path) \in dirs}

\* C12: no two sessions write to the same path (game log or example file).
C12_UniqueOutputNames ==
  \A x, y \in file_log : x.path = y.path => x.by = y.by

\* C13: a completed session has written exactly one example file, into
\* exactly one of holdout_dir and output_dir, holding all the examples of its
\* game, with the base name of its clean and its full game log.
C13_HoldoutRouting ==
  \A s \in Sessions :
    sp_pc[s] = "done" =>
      \E e \in WritesOf(s, {holdout_dir, output_dir}) :
        /\ WritesOf(s, {holdout_dir, output_dir}) = {e}
        /\ e.data = ExtractData(s)
        /\ e.data # {}
        /\ WritesOf(s, {clean_sgf}) # {}
        /\ WritesOf(s, {full_sgf}) # {}
        /\ \A x \in WritesOf(s, {clean_sgf, full_sgf}) :
             BaseName(x.path) = BaseName(e.path)

\* C13 witness: both sessions have completed, one game held out and the
\* other one written to the training pool.
C13_Witness ==
  /\ \A s \in Sessions : sp_pc[s] = "done"
  /\ \E s \in Sessions : DirName(fname[s]) = holdout_dir
  /\ \E s \in Sessions : DirName(fname[s]) = output_dir

\* --------------------------------------------------------- gtp: properties
RECURSIVE Flatten(_)
Flatten(ss) == IF ss = <<>> THEN <<>> ELSE Head(ss) \o Flatten(Tail(ss))

\* The sub-commands the peer has put in the lines read so far, in order
Requested == Flatten(input_log)

\* Replies written to sys.stdout so far, flushed or not
Written == stdout \o stdout_buf

\* C8: the sub-commands of the lines read are sent to the engine in their
\* order; each gets exactly one reply, written before the next sub-command is
\* sent; and a line is read only when every sub-command of the lines before
\* it has its reply written and flushed.
C8_ProtocolOrdering ==
  /\ Len(sent) <= Len(Requested)
  /\ sent = SubSeq(Requested, 1, Len(sent))
  /\ Len(Written) = (IF gtp_pc = "write" THEN Len(sent) - 1 ELSE Len(sent))
  /\ \A k \in 1..Len(Written) : Written[k] = EngineReply(sent[k])
  /\ gtp_pc \in {"while", "input", "done", "error"} =>
       (stdout_buf = <<>> /\ Len(stdout) = Len(Requested))

\* C8 witness: a line of three sub-commands has been answered in full and gtp
\* is about to read the next line.
C8_Witness ==
  /\ gtp_pc = "input"
  /\ Len(input_log) = 1
  /\ Len(input_log[1]) = 3
  /\ Len(stdout) = 3

\* C9: once engine.disconnect is true gtp reads no further line (no input()
\* call returns or raises), it reaches its end, and it stays there.
C9_Disconnect ==
  /\ [][disconnect =>
          (input_log' = input_log /\ reads_failed' = reads_failed
           /\ gtp_pc' # "input")]_vars
  /\ (disconnect ~> (gtp_pc = "done"))
  /\ [][gtp_pc = "done" => gtp_pc' = "done"]_vars

\* C9 witness: the engine disconnected while the first line was served, and
\* gtp has ended without reading a second one.
C9_Witness ==
  /\ disconnect
  /\ gtp_pc = "done"
  /\ Len(input_log) = 1

\* C10: a failing input() does not make gtp abort with an error.
C10_MalformedInputNotFatal == reads_failed > 0 => gtp_pc # "error"

\* C17: once engine.disconnect is true, no further sub-command is sent to the
\* engine, the remaining sub-commands of the line in progress included.
C17_NoDispatchAfterDisconnect == [][disconnect => sent' = sent]_vars

====
